---- MODULE Spec2Model ----
(***************************************************************************)
(* Model of gravis_utils.pagination: the page set builder (ListPaginator), *)
(* the factory ListPagination.start, the Pagination view with its button   *)
(* callbacks, the PageSelectModal and the timeout handler; and of the      *)
(* small components BoolTransformer (bool_transformer), the bucket types   *)
(* (cooldown) and CheckMessage (check_view), each under a specification of *)
(* its own.                                                                *)
(*                                                                         *)
(* Every handler is cut at its awaited send/edit: the part before the      *)
(* await is one action, the continuation after it another, so handlers of  *)
(* several interactions interleave exactly where asyncio lets them.        *)
(* Items are plain strings, so the list renderer is the one in use.        *)
(***************************************************************************)
EXTENDS Integers, Sequences, FiniteSets, Bags, TLC

\* ---- bounds of the model ------------------------------------------------
MaxItems == 3
MaxPerPage == 2
MaxInFlight == 1
InvalidCap == 2
MaxPartialLen == 3     \* longest text handed to BoolTransformer

ItemValues == {"a", "b"}
Owner == "u1"
Users == {"u1", "u2"}
CtxKinds == {"Context", "Interaction"}
DigitChars == <<"0", "1", "2", "3", "4", "5", "6", "7", "8", "9">>
Digits == {DigitChars[i] : i \in 1..10}
\* what gets typed into the modal: the digits up to one past the largest page
\* count, a letter and a sign
Chars == {DigitChars[i] : i \in 1..(MaxItems + 2)} \cup {"x", "-"}
ButtonIds == {"first_page", "previous", "current_page", "next", "last_page"}
NavButtonIds == {"first_page", "previous", "next", "last_page"}

SeqsUpTo(S, n) == UNION {[1..m -> S] : m \in 0..n}
ItemLists == SeqsUpTo(ItemValues, MaxItems)
\* one list per length, one item per page: what a session does depends on the
\* number of pages only
SessionPageSizes == {1}
SessionLists == {[i \in 1..n |-> IF i % 2 = 1 THEN "a" ELSE "b"] : n \in 0..MaxItems}

\* ---- Python built-ins used by the code ------------------------------------
\* math.ceil(n / p) for a non-negative n and a positive p
ceil_div(n, p) == (n \div p) + (IF n % p = 0 THEN 0 ELSE 1)

\* seq[start:end] for 0 <= start, clipped at the end of the list
py_slice(seq, start, end) ==
  IF start >= Len(seq) THEN <<>>
  ELSE SubSeq(seq, start + 1, IF end < Len(seq) THEN end ELSE Len(seq))

\* seq[i]: a negative i counts from the end of the list; IndexError outside
index_ok(seq, i) == 0 - Len(seq) <= i /\ i < Len(seq)
py_index(seq, i) == IF i < 0 THEN seq[Len(seq) + i + 1] ELSE seq[i + 1]

DigitVal(c) == (CHOOSE i \in 1..10 : DigitChars[i] = c) - 1

\* len(str(n)) for a non-negative n below 100
str_len(n) == IF n < 10 THEN 1 ELSE 2

RECURSIVE DigitsValue(_)
DigitsValue(s) ==
  IF s = <<>> THEN 0
  ELSE DigitsValue(SubSeq(s, 1, Len(s) - 1)) * 10 + DigitVal(s[Len(s)])

AllDigits(s) == Len(s) >= 1 /\ \A i \in 1..Len(s) : s[i] \in Digits

\* int(text): an optional sign followed by decimal digits, else ValueError
int(s) ==
  IF AllDigits(s) THEN [ok |-> TRUE, value |-> DigitsValue(s)]
  ELSE IF Len(s) >= 2 /\ s[1] = "-" /\ AllDigits(Tail(s))
       THEN [ok |-> TRUE, value |-> 0 - DigitsValue(Tail(s))]
       ELSE [ok |-> FALSE, value |-> 0]

\* ---- renderer and page set builder ---------------------------------------
default_formatter(index, item) == <<index, item>>

\* variant: the numbering starts again at 1 on every page
create_embed_restarting(page_items, page_info) ==
  [title |-> <<page_info.current + 1, page_info.total>>,
   description |-> [i \in 1..Len(page_items) |->
                      default_formatter((i - 1) + 1, page_items[i])]]

\* ListEmbedRenderer.create_embed with show_page_in_title
create_embed(page_items, page_info) ==
  [title |-> <<page_info.current + 1, page_info.total>>,
   description |-> [i \in 1..Len(page_items) |->
                      default_formatter(page_info.start_index + (i - 1) + 1,
                                        page_items[i])]]

total_pages(items, items_per_page) == ceil_div(Len(items), items_per_page)

\* variant: the slice stops one item early
page_slice_short(items, items_per_page, i) ==
  py_slice(items, i * items_per_page, i * items_per_page + items_per_page - 1)

page_slice(items, items_per_page, i) ==
  py_slice(items, i * items_per_page, i * items_per_page + items_per_page)

create_pages(items, items_per_page) ==
  [n \in 1..total_pages(items, items_per_page) |->
     create_embed(page_slice(items, items_per_page, n - 1),
                  [current |-> n - 1,
                   total |-> total_pages(items, items_per_page),
                   start_index |-> (n - 1) * items_per_page])]

ListPaginator(items, items_per_page) ==
  [built |-> TRUE, items |-> items, items_per_page |-> items_per_page,
   pages |-> create_pages(items, items_per_page)]

NoPaginator == [built |-> FALSE, items |-> <<>>, items_per_page |-> 1, pages |-> <<>>]

\* ---- the Pagination view ---------------------------------------------------
NoView == [added |-> FALSE, disabled |-> [id \in ButtonIds |-> FALSE], label |-> <<0, 0>>]
NoEmbed == [title |-> <<0, 0>>, description |-> <<>>]
NoMessage == [sent |-> FALSE, embed |-> NoEmbed, view |-> NoView]
NoContext == [kind |-> "None", user |-> "nobody"]
Some(v) == [some |-> TRUE, val |-> v]
None == [some |-> FALSE, val |-> <<>>]

add_button(total) ==
  [added |-> TRUE, disabled |-> [id \in ButtonIds |-> FALSE], label |-> <<1, total>>]

\* variant: the last page is taken to be index total
update_button_states_past_end(b, cur, total) ==
  [b EXCEPT !.disabled = [id \in ButtonIds |->
                            IF id \in {"first_page", "previous"} THEN cur = 0
                            ELSE IF id \in {"next", "last_page"} THEN cur = total
                            ELSE b.disabled[id]],
            !.label = <<cur + 1, total>>]

\* variant: the label of the jump button is left as it was
update_button_states_keeps_label(b, cur, total) ==
  [b EXCEPT !.disabled = [id \in ButtonIds |->
                            IF id \in {"first_page", "previous"} THEN cur = 0
                            ELSE IF id \in {"next", "last_page"} THEN cur = total - 1
                            ELSE b.disabled[id]]]

update_button_states(b, cur, total) ==
  [b EXCEPT !.disabled = [id \in ButtonIds |->
                            IF id \in {"first_page", "previous"} THEN cur = 0
                            ELSE IF id \in {"next", "last_page"} THEN cur = total - 1
                            ELSE b.disabled[id]],
            !.label = <<cur + 1, total>>]

\* variant: only the four navigation buttons are disabled
disable_children_nav_only(b) ==
  [b EXCEPT !.disabled = [id \in ButtonIds |-> id \in NavButtonIds \/ b.disabled[id]]]

disable_children(b) == [b EXCEPT !.disabled = [id \in ButtonIds |-> TRUE]]

\* variant: the lower bound of the range test is missing
page_in_range_no_lower(page_number, total) == page_number < total

page_in_range(page_number, total) == 0 <= page_number /\ page_number < total

\* variant: any user of a started session passes the check
is_valid_user_anyone(c, user) == c.kind \in {"Context", "Interaction"}

is_valid_user(c, user) ==
  IF c.kind = "Context" THEN user = c.user
  ELSE IF c.kind = "Interaction" THEN user = c.user
  ELSE FALSE

callback_target(id, cur, total) ==
  CASE id = "first_page" -> 0
    [] id = "previous" -> cur - 1
    [] id = "next" -> cur + 1
    [] id = "last_page" -> total - 1

\* variant: the edit always carries the first page
edit_payload_first_page(pgs, cur, b) == [embed |-> py_index(pgs, 0), view |-> b]

edit_payload(pgs, cur, b) == [embed |-> py_index(pgs, cur), view |-> b]

stop(ph) == IF ph = "Active" THEN "Terminated" ELSE ph

\* PageSelectModal.on_submit: the range test and the index handed to go_to_page
\* variant: the typed number is handed on without the shift to 0-based
jump_target_unshifted(page_number, total) ==
  [accepted |-> 1 <= page_number /\ page_number <= total, index |-> page_number]

\* variant: the typed number is read as a 0-based index
jump_target_zero_based(page_number, total) ==
  [accepted |-> 0 <= page_number /\ page_number < total, index |-> page_number]

jump_target(page_number, total) ==
  [accepted |-> 1 <= page_number /\ page_number <= total, index |-> page_number - 1]

\* the ephemeral replies of PageSelectModal.on_submit
NoReply == [text |-> "none", total |-> 0]
InvalidFormat == [text |-> "enter a valid number", total |-> 0]
OutOfRange(total) == [text |-> "enter a number from 1 to total", total |-> total]

Task(kind, embed, view, idem) == [kind |-> kind, embed |-> embed, view |-> view, idem |-> idem]
One(t) == SetToBag({t})
Event(op, user) ==
  [op |-> op, user |-> user, input |-> <<>>, called |-> FALSE, target |-> 0,
   reply |-> NoReply, modal |-> FALSE, idem |-> FALSE]

\* ---- BoolTransformer ----------------------------------------------------------
\* the two tokens, spelled by the code points of their characters
Enabled == <<"U+6709", "U+52B9">>
Disabled == <<"U+7121", "U+52B9">>
options == <<Enabled, Disabled>>
TokenChars == {"U+6709", "U+7121", "U+52B9", "a"}

\* variant: current has to be the beginning of option
contains_at_start(current, option) ==
  Len(current) <= Len(option) /\ SubSeq(option, 1, Len(current)) = current

\* current in option
contains(current, option) ==
  \E i \in 0..(Len(option) - Len(current)) : SubSeq(option, i + 1, i + Len(current)) = current

Choice(name, value) == [name |-> name, value |-> value]

RECURSIVE autocomplete(_, _)
autocomplete(opts, current) ==
  IF opts = <<>> THEN <<>>
  ELSE (IF contains(current, Head(opts)) THEN <<Choice(Head(opts), Head(opts))>> ELSE <<>>)
         \o autocomplete(Tail(opts), current)

transform(value) == value = Enabled

NoCompletion == [called |-> "none", current |-> <<>>, choices |-> <<>>, result |-> FALSE]

\* ---- cooldown bucket types ----------------------------------------------------
\* ids are compared for equality only; "None" is Python's None
GuildIds == {"g1", "g2"}
ChannelIds == {"c1", "c2"}
CategoryIds == {"k1"}
RoleIds == {"r1", "r2"}

\* an interaction in a guild channel, or in a private channel
Interactions ==
  [guild : GuildIds, user : Users, channel : ChannelIds, private : {FALSE},
   category : CategoryIds \cup {"None"}, top_role : RoleIds]
  \cup
  [guild : {"None"}, user : Users, channel : ChannelIds, private : {TRUE},
   category : {"None"}, top_role : {"None"}]

\* a discord.Member: it always has a guild
Members ==
  [guild : GuildIds, user : Users, channel : {"None"}, private : {FALSE},
   category : {"None"}, top_role : RoleIds]

InteractionBucketTypes == {"default", "user", "guild", "channel", "member", "category", "role"}
MemberBucketTypes == {"default", "user", "guild", "member"}

\* a key: <<>> is None, <<id>> a single id, <<a, b>> a pair
NoKey == <<>>

\* variant: the second operand is taken when the first is present
py_or_as_and(a, b) == IF a # "None" THEN b ELSE a

\* a or b, on an object or None
py_or(a, b) == IF a # "None" THEN a ELSE b

\* variant: the member key leaves the guild out
InteractionBucketType_get_key_user_only(type, interaction) ==
  CASE type = "user" -> <<interaction.user>>
    [] type = "guild" -> <<py_or(interaction.guild, interaction.user)>>
    [] type = "channel" -> <<interaction.channel>>
    [] type = "member" -> <<interaction.user>>
    [] type = "category" -> <<py_or(interaction.category, interaction.channel)>>
    [] type = "role" -> <<IF interaction.private THEN interaction.channel
                          ELSE interaction.top_role>>
    [] OTHER -> NoKey

InteractionBucketType_get_key(type, interaction) ==
  CASE type = "user" -> <<interaction.user>>
    [] type = "guild" -> <<py_or(interaction.guild, interaction.user)>>
    [] type = "channel" -> <<interaction.channel>>
    [] type = "member" -> <<interaction.guild, interaction.user>>
    [] type = "category" -> <<py_or(interaction.category, interaction.channel)>>
    [] type = "role" -> <<IF interaction.private THEN interaction.channel
                          ELSE interaction.top_role>>
    [] OTHER -> NoKey

MemberBucketType_get_key(type, member) ==
  CASE type = "user" -> <<member.user>>
    [] type = "guild" -> <<py_or(member.guild, member.user)>>
    [] type = "member" -> <<member.guild, member.user>>
    [] OTHER -> NoKey

NoBucket ==
  [called |-> "none", scope |-> "interaction", type |-> "default",
   first |-> CHOOSE r \in Interactions : TRUE,
   second |-> CHOOSE r \in Interactions : TRUE, keys |-> <<>>]

\* ---- CheckMessage ---------------------------------------------------------------
CheckTexts == {"m1", "m2"}
Callbacks == {"cb1", "cb2"}
CancelNotice == "cancelled, this message is deleted in a few seconds"
cancel_delete_delay == 5

\* a constructed CheckMessage and the arguments its start is called with.
\* predefined: the class in use already has a confirm_button_callback attribute
\* (a subclass that defines the method); CheckMessage itself has none.
NewCheck(predefined, is_done, check_msg, confirm_callback) ==
  [pc |-> "constructed", error |-> "none",
   predefined |-> predefined, is_done |-> is_done,
   check_msg |-> check_msg, confirm_callback |-> confirm_callback,
   confirm_button_callback |-> IF predefined THEN "method" ELSE "unset",
   confirm_button |-> "unset", cancel_button |-> "unset",
   children |-> {},
   message |-> "unset",
   displayed |-> [sent |-> FALSE, content |-> "", components |-> {}],
   deletion |-> [scheduled |-> FALSE, delay |-> 0],
   cancel_pc |-> "idle", cancel_error |-> "none", cancel_user |-> "nobody"]

NoCheck == NewCheck(FALSE, FALSE, "m1", "cb1")

\* CheckMessage.add_button: the two buttons are created, then their callbacks
\* are bound; reading a missing confirm_button_callback raises AttributeError.
\* No button is added to the view.
CheckMessage_add_button(c) ==
  IF c.confirm_button_callback = "unset"
  THEN [c EXCEPT !.confirm_button = "default", !.cancel_button = "default",
                 !.error = "AttributeError"]
  ELSE [c EXCEPT !.confirm_button = c.confirm_button_callback,
                 !.cancel_button = "cancel_button_callback"]

VARIABLES
  items, items_per_page, ctx,      \* the arguments of the caller
  paginator,                       \* the ListPaginator, once constructed
  pages, ctx_or_interaction, message, current_page, total_page_count,
  buttons,                         \* the five buttons of the view
  phase,                           \* Idle, Starting, Failed, Active, Terminated, Static
  inflight,                        \* awaited sends and edits not yet answered
  timeout_task,                    \* on_timeout: idle, awaiting its edit, done
  modals,                          \* users with an open PageSelectModal
  shown,                           \* the message as the platform displays it
  last,                            \* the step taken last
  invalid_seen,                    \* rejected submissions so far (capped)
  arrival_index,                   \* the navigations so far, applied one by one as they arrived
  completion,                      \* a call of BoolTransformer
  bucket,                          \* a call of a cooldown bucket type on two requests
  check                            \* a CheckMessage

vars == <<items, items_per_page, ctx, paginator, pages, ctx_or_interaction, message,
          current_page, total_page_count, buttons, phase, inflight, timeout_task,
          modals, shown, last, invalid_seen, arrival_index, completion, bucket, check>>
args == <<items, items_per_page, ctx>>
utilities == <<completion, bucket, check>>
pagination == <<items, items_per_page, ctx, paginator, pages, ctx_or_interaction, message,
                current_page, total_page_count, buttons, phase, inflight, timeout_task,
                modals, shown, last, invalid_seen, arrival_index>>
session == <<pages, ctx_or_interaction, message, current_page, total_page_count,
             buttons, phase>>

\* nothing has been called on the transformer, the bucket types, the CheckMessage
UtilitiesIdle ==
  /\ completion = NoCompletion
  /\ bucket = NoBucket
  /\ check = NoCheck

InitWith(lists, sizes) ==
  /\ items \in lists
  /\ items_per_page \in sizes
  /\ ctx \in [kind : CtxKinds, user : {Owner}]
  /\ paginator = NoPaginator
  /\ pages = Some(<<>>)
  /\ ctx_or_interaction = NoContext
  /\ message = "None"
  /\ current_page = 0
  /\ total_page_count = 0
  /\ buttons = NoView
  /\ phase = "Idle"
  /\ inflight = EmptyBag
  /\ timeout_task = [pc |-> "idle", view |-> NoView]
  /\ modals = {}
  /\ shown = NoMessage
  /\ last = Event("init", "nobody")
  /\ invalid_seen = 0
  /\ arrival_index = 0

\* Pagination.start up to its awaited send
StartSession(pgs) ==
  /\ pages' = Some(pgs)
  /\ total_page_count' = Len(pgs)
  /\ ctx_or_interaction' = ctx
  /\ buttons' = add_button(Len(pgs))
  /\ IF Len(pgs) = 0
     THEN /\ phase' = "Failed"          \* self.pages[0] raises IndexError
          /\ inflight' = inflight
     ELSE /\ phase' = "Starting"
          /\ inflight' = One(Task("start", py_index(pgs, 0), buttons', FALSE))
  /\ UNCHANGED <<message, current_page>>

\* ListPagination.start: the test that sends a single page without a view
\* variant: the test looks for the empty page set
is_single_page_when_empty(pgs) == Len(pgs) = 0

is_single_page(pgs) == Len(pgs) = 1

\* ListPagination.start up to its first await
ListPagination_start ==
  /\ phase = "Idle"
  /\ paginator' = ListPaginator(items, items_per_page)
  /\ IF is_single_page(paginator'.pages)
     THEN /\ IF index_ok(paginator'.pages, 0)
             THEN /\ phase' = "Static"
                  /\ inflight' = One(Task("static", py_index(paginator'.pages, 0),
                                          NoView, FALSE))
             ELSE /\ phase' = "Failed"      \* paginator.pages[0] raises IndexError
                  /\ inflight' = inflight
          /\ UNCHANGED <<pages, ctx_or_interaction, message, current_page,
                         total_page_count, buttons>>
     ELSE StartSession(paginator'.pages)
  /\ last' = Event("ListPagination.start", ctx.user)
  /\ UNCHANGED <<args, utilities, arrival_index, timeout_task, modals, shown, invalid_seen>>

\* a caller builds the pages with ListPaginator and hands them to Pagination.start
Pagination_start ==
  /\ phase = "Idle"
  /\ paginator' = ListPaginator(items, items_per_page)
  /\ StartSession(paginator'.pages)
  /\ last' = Event("Pagination.start", ctx.user)
  /\ UNCHANGED <<args, utilities, arrival_index, timeout_task, modals, shown, invalid_seen>>

\* Pagination.start after its send returned
StartSent ==
  \E t \in BagToSet(inflight) :
  /\ phase = "Starting"
  /\ t.kind = "start"
  /\ message' = "msg"
  /\ shown' = [sent |-> TRUE, embed |-> t.embed, view |-> t.view]
  /\ buttons' = update_button_states(buttons, current_page, total_page_count)
  /\ phase' = "Active"
  /\ inflight' = EmptyBag
  /\ last' = Event("start_sent", ctx.user)
  /\ UNCHANGED <<args, utilities, arrival_index, paginator, pages, ctx_or_interaction, current_page,
                 total_page_count, timeout_task, modals, invalid_seen>>

\* the send of Pagination.start raised: the exception reaches the caller
StartSendFailed ==
  \E t \in BagToSet(inflight) :
  /\ phase = "Starting"
  /\ t.kind = "start"
  /\ phase' = "Failed"
  /\ inflight' = EmptyBag
  /\ last' = Event("start_send_failed", ctx.user)
  /\ UNCHANGED <<args, utilities, arrival_index, paginator, pages, ctx_or_interaction, message, current_page,
                 total_page_count, buttons, timeout_task, modals, shown, invalid_seen>>

\* the static single page of ListPagination.start is sent, or its send raises
StaticSent ==
  \E t \in BagToSet(inflight) :
  /\ phase = "Static"
  /\ t.kind = "static"
  /\ shown' = [sent |-> TRUE, embed |-> t.embed, view |-> NoView]
  /\ inflight' = EmptyBag
  /\ last' = Event("static_sent", ctx.user)
  /\ UNCHANGED <<args, utilities, arrival_index, paginator, session, timeout_task, modals, invalid_seen>>

StaticSendFailed ==
  \E t \in BagToSet(inflight) :
  /\ phase = "Static"
  /\ t.kind = "static"
  /\ inflight' = EmptyBag
  /\ last' = Event("static_send_failed", ctx.user)
  /\ UNCHANGED <<args, utilities, arrival_index, paginator, session, timeout_task, modals, shown, invalid_seen>>

\* the text a PageSelectModal lets through: min_length=1, max_length=len(str(total))
min_length == 1
max_length(total) == str_len(total)
InputStrings(total) ==
  {s \in SeqsUpTo(Chars, max_length(total)) : Len(s) >= min_length}

\* who can press the buttons: the message of an Interaction is ephemeral
Viewers == IF ctx_or_interaction.kind = "Interaction" THEN {Owner} ELSE Users

Clickable(id) == phase = "Active" /\ shown.sent /\ shown.view.added /\ ~shown.view.disabled[id]

IsSameIndex(page_number) == page_number = current_page /\ phase = "Active"

\* Pagination.go_to_page up to its awaited edit
go_to_page(page_number) ==
  IF page_in_range(page_number, total_page_count)
  THEN /\ BagCardinality(inflight) < MaxInFlight     \* bound on the awaited edits
       /\ current_page' = page_number
       /\ buttons' = update_button_states(buttons, current_page', total_page_count)
       /\ IF pages.some /\ index_ok(pages.val, current_page')
          THEN inflight' =
                 inflight (+)
                   One(Task("edit", edit_payload(pages.val, current_page', buttons').embed,
                            edit_payload(pages.val, current_page', buttons').view,
                            IsSameIndex(page_number)))
          ELSE inflight' = inflight        \* TypeError on None, IndexError outside
  ELSE UNCHANGED <<current_page, buttons, inflight>>

\* first_page_callback, previous_button_callback, next_button_callback, last_page_callback
ButtonCallback(u, id) ==
  /\ Clickable(id)
  /\ IF is_valid_user(ctx_or_interaction, u)
     THEN /\ go_to_page(callback_target(id, current_page, total_page_count))
          /\ last' = [Event(id, u) EXCEPT
                        !.called = TRUE,
                        !.target = callback_target(id, current_page, total_page_count),
                        !.idem = IsSameIndex(callback_target(id, current_page, total_page_count))]
     ELSE /\ UNCHANGED <<current_page, buttons, inflight>>
          /\ last' = Event(id, u)
  /\ arrival_index' = IF last'.called /\ 0 <= last'.target /\ last'.target < total_page_count
                      THEN last'.target ELSE arrival_index
  /\ UNCHANGED <<args, utilities, paginator, pages, ctx_or_interaction, message, total_page_count,
                 phase, timeout_task, modals, shown, invalid_seen>>

\* page_select_callback: send_modal succeeds (ok) or raises
page_select_callback(u, ok) ==
  /\ Clickable("current_page")
  /\ IF is_valid_user(ctx_or_interaction, u)
     THEN /\ modals' = IF ok THEN modals \cup {u} ELSE modals
          /\ last' = [Event("current_page", u) EXCEPT !.modal = ok]
     ELSE /\ modals' = modals
          /\ last' = Event("current_page", u)
  /\ UNCHANGED <<args, utilities, arrival_index, paginator, session, inflight, timeout_task, shown, invalid_seen>>

Bump(n) == IF n < InvalidCap THEN n + 1 ELSE n

\* PageSelectModal.on_submit; the modal is closed by its submission
on_submit(u, s) ==
  /\ u \in modals
  /\ modals' = modals \ {u}
  /\ IF int(s).ok
     THEN IF jump_target(int(s).value, total_page_count).accepted
          THEN /\ go_to_page(jump_target(int(s).value, total_page_count).index)
               /\ last' = [Event("on_submit", u) EXCEPT
                             !.input = s, !.called = TRUE,
                             !.target = jump_target(int(s).value, total_page_count).index,
                             !.idem = IsSameIndex(jump_target(int(s).value,
                                                              total_page_count).index)]
               /\ invalid_seen' = invalid_seen
          ELSE /\ UNCHANGED <<current_page, buttons, inflight>>
               /\ last' = [Event("on_submit", u) EXCEPT !.input = s, !.reply = OutOfRange(total_page_count)]
               /\ invalid_seen' = Bump(invalid_seen)
     ELSE /\ UNCHANGED <<current_page, buttons, inflight>>
          /\ last' = [Event("on_submit", u) EXCEPT !.input = s, !.reply = InvalidFormat]
          /\ invalid_seen' = Bump(invalid_seen)
  /\ arrival_index' = IF last'.called /\ 0 <= last'.target /\ last'.target < total_page_count
                      THEN last'.target ELSE arrival_index
  /\ UNCHANGED <<args, utilities, paginator, pages, ctx_or_interaction, message, total_page_count,
                 phase, timeout_task, shown>>

\* the edit of a go_to_page is delivered
EditDelivered(t) ==
  /\ BagIn(t, inflight)
  /\ t.kind = "edit"
  /\ shown' = [shown EXCEPT !.embed = t.embed, !.view = t.view]
  /\ inflight' = inflight (-) One(t)
  /\ last' = [Event("edit_done", "nobody") EXCEPT !.idem = t.idem]
  /\ UNCHANGED <<args, utilities, arrival_index, paginator, session, timeout_task, modals, invalid_seen>>

\* the edit of a go_to_page raises discord.HTTPException
EditFailed(t) ==
  /\ BagIn(t, inflight)
  /\ t.kind = "edit"
  /\ phase' = stop(phase)
  /\ inflight' = inflight (-) One(t)
  /\ last' = [Event("edit_failed", "nobody") EXCEPT !.idem = t.idem]
  /\ UNCHANGED <<args, utilities, arrival_index, paginator, pages, ctx_or_interaction, message, current_page,
                 total_page_count, buttons, timeout_task, modals, shown, invalid_seen>>

\* Pagination.on_timeout up to its awaited edit; the view stops listening
on_timeout ==
  /\ phase = "Active"
  /\ timeout_task.pc = "idle"
  /\ phase' = "Terminated"
  /\ buttons' = disable_children(buttons)
  /\ timeout_task' = [pc |-> "awaiting", view |-> buttons']
  /\ last' = Event("on_timeout", "nobody")
  /\ UNCHANGED <<args, utilities, arrival_index, paginator, pages, ctx_or_interaction, message, current_page,
                 total_page_count, inflight, modals, shown, invalid_seen>>

\* Pagination.on_timeout after its edit: delivered (ok) or HTTPException swallowed
on_timeout_resume(ok) ==
  /\ timeout_task.pc = "awaiting"
  /\ shown' = IF ok THEN [shown EXCEPT !.view = timeout_task.view] ELSE shown
  /\ pages' = None
  /\ ctx_or_interaction' = NoContext
  /\ message' = "None"
  /\ timeout_task' = [timeout_task EXCEPT !.pc = "done"]
  /\ last' = Event(IF ok THEN "timeout_edit_done" ELSE "timeout_edit_failed", "nobody")
  /\ UNCHANGED <<args, utilities, arrival_index, paginator, current_page, total_page_count, buttons, phase,
                 inflight, modals, invalid_seen>>

Init == InitWith(SessionLists, SessionPageSizes) /\ UtilitiesIdle

Next ==
  \/ ListPagination_start
  \/ Pagination_start
  \/ StartSent
  \/ StartSendFailed
  \/ StaticSent
  \/ StaticSendFailed
  \/ \E u \in Viewers, id \in NavButtonIds : ButtonCallback(u, id)
  \/ \E u \in Viewers, ok \in BOOLEAN : page_select_callback(u, ok)
  \/ \E u \in Users, s \in InputStrings(total_page_count) : on_submit(u, s)
  \/ \E t \in BagToSet(inflight) : EditDelivered(t)
  \/ \E t \in BagToSet(inflight) : EditFailed(t)
  \/ on_timeout
  \/ \E ok \in BOOLEAN : on_timeout_resume(ok)

Spec == Init /\ [][Next]_vars

\* the builder and the start of a session, over every item list of the bound
InitBuild == InitWith(ItemLists, 1..MaxPerPage) /\ UtilitiesIdle

NextBuild ==
  \/ ListPagination_start
  \/ Pagination_start
  \/ StartSent
  \/ StartSendFailed
  \/ StaticSent
  \/ StaticSendFailed

SpecBuild == InitBuild /\ [][NextBuild]_vars

\* ListPagination.start as the only entry point, over every item list of the bound
NextList ==
  \/ ListPagination_start
  \/ StartSent
  \/ StartSendFailed
  \/ StaticSent
  \/ StaticSendFailed

SpecList == InitBuild /\ [][NextList]_vars

\* ---- BoolTransformer on every text of the bound ---------------------------------
Partials == SeqsUpTo(TokenChars, MaxPartialLen)

BoolTransformer_autocomplete ==
  /\ completion.called = "none"
  /\ completion' = [completion EXCEPT
                      !.called = "autocomplete",
                      !.choices = autocomplete(options, completion.current)]
  /\ UNCHANGED <<pagination, bucket, check>>

BoolTransformer_transform ==
  /\ completion.called = "none"
  /\ completion' = [completion EXCEPT
                      !.called = "transform",
                      !.result = transform(completion.current)]
  /\ UNCHANGED <<pagination, bucket, check>>

InitBool ==
  /\ InitWith({<<>>}, {1})
  /\ ctx.kind = "Context"
  /\ completion \in [called : {"none"}, current : Partials, choices : {<<>>},
                      result : {FALSE}]
  /\ bucket = NoBucket
  /\ check = NoCheck

NextBool ==
  \/ BoolTransformer_autocomplete
  \/ BoolTransformer_transform

SpecBool == InitBool /\ [][NextBool]_vars

\* ---- the bucket types on every pair of requests -----------------------------------
InteractionBucketType_call(type) ==
  /\ bucket.called = "none"
  /\ bucket.scope = "interaction"
  /\ bucket' = [bucket EXCEPT
                  !.called = "get_key", !.type = type,
                  !.keys = <<InteractionBucketType_get_key(type, bucket.first),
                             InteractionBucketType_get_key(type, bucket.second)>>]
  /\ UNCHANGED <<pagination, completion, check>>

MemberBucketType_call(type) ==
  /\ bucket.called = "none"
  /\ bucket.scope = "member"
  /\ bucket' = [bucket EXCEPT
                  !.called = "get_key", !.type = type,
                  !.keys = <<MemberBucketType_get_key(type, bucket.first),
                             MemberBucketType_get_key(type, bucket.second)>>]
  /\ UNCHANGED <<pagination, completion, check>>

InitKey ==
  /\ InitWith({<<>>}, {1})
  /\ ctx.kind = "Context"
  /\ completion = NoCompletion
  /\ bucket \in [called : {"none"}, scope : {"interaction"}, type : {"default"},
                  first : Interactions, second : Interactions, keys : {<<>>}]
               \cup
               [called : {"none"}, scope : {"member"}, type : {"default"},
                first : Members, second : Members, keys : {<<>>}]
  /\ check = NoCheck

NextKey ==
  \/ \E type \in InteractionBucketTypes : InteractionBucketType_call(type)
  \/ \E type \in MemberBucketTypes : MemberBucketType_call(type)

SpecKey == InitKey /\ [][NextKey]_vars

\* ---- CheckMessage ------------------------------------------------------------------
\* CheckMessage.start up to its first await
CheckMessage_start ==
  /\ check.pc = "constructed"
  /\ check' =
       IF CheckMessage_add_button(check).error = "AttributeError"
       THEN [CheckMessage_add_button(check) EXCEPT !.pc = "raised"]
       ELSE [CheckMessage_add_button(check) EXCEPT
               !.confirm_button_callback = check.confirm_callback,
               !.pc = IF check.is_done THEN "sending" ELSE "deferring"]
  /\ UNCHANGED <<pagination, completion, bucket>>

\* interaction.response.defer() returned (ok) or raised
CheckMessage_deferred(ok) ==
  /\ check.pc = "deferring"
  /\ check' = IF ok THEN [check EXCEPT !.pc = "sending"]
              ELSE [check EXCEPT !.pc = "raised", !.error = "HTTPException"]
  /\ UNCHANGED <<pagination, completion, bucket>>

\* interaction.followup.send(check_msg, view=self) returned (ok) or raised
CheckMessage_sent(ok) ==
  /\ check.pc = "sending"
  /\ check' = IF ok
              THEN [check EXCEPT
                      !.pc = "started", !.message = "msg",
                      !.displayed = [sent |-> TRUE, content |-> check.check_msg,
                                     components |-> check.children]]
              ELSE [check EXCEPT !.pc = "raised", !.error = "HTTPException"]
  /\ UNCHANGED <<pagination, completion, bucket>>

\* cancel_button_callback up to its awaited edit, run for a view whose start
\* has returned or raised; self.message is only set by a start that returned
cancel_button_callback(u) ==
  /\ check.pc \in {"started", "raised"}
  /\ check.cancel_pc = "idle"
  /\ check' = IF check.message = "unset"
              THEN [check EXCEPT !.cancel_pc = "raised", !.cancel_error = "AttributeError",
                                 !.cancel_user = u]
              ELSE [check EXCEPT !.cancel_pc = "editing", !.cancel_user = u]
  /\ UNCHANGED <<pagination, completion, bucket>>

\* the edit of cancel_button_callback returned (ok), and delete(delay=5.0)
\* schedules the deletion; or the edit raised
cancel_edited(ok) ==
  /\ check.cancel_pc = "editing"
  /\ check' = IF ok
              THEN [check EXCEPT
                      !.cancel_pc = "done",
                      !.displayed = [sent |-> TRUE, content |-> CancelNotice,
                                     components |-> {}],
                      !.deletion = [scheduled |-> TRUE, delay |-> cancel_delete_delay]]
              ELSE [check EXCEPT !.cancel_pc = "raised", !.cancel_error = "HTTPException"]
  /\ UNCHANGED <<pagination, completion, bucket>>

InitCheck ==
  /\ InitWith({<<>>}, {1})
  /\ ctx.kind = "Context"
  /\ completion = NoCompletion
  /\ bucket = NoBucket
  /\ \E predefined \in BOOLEAN, is_done \in BOOLEAN, check_msg \in CheckTexts,
        confirm_callback \in Callbacks :
       check = NewCheck(predefined, is_done, check_msg, confirm_callback)

NextCheck ==
  \/ CheckMessage_start
  \/ \E ok \in BOOLEAN : CheckMessage_deferred(ok)
  \/ \E ok \in BOOLEAN : CheckMessage_sent(ok)
  \/ \E u \in Users : cancel_button_callback(u)
  \/ \E ok \in BOOLEAN : cancel_edited(ok)

SpecCheck == InitCheck /\ [][NextCheck]_vars

TypeOK ==
  /\ phase \in {"Idle", "Starting", "Failed", "Active", "Terminated", "Static"}
  /\ current_page \in Int
  /\ BagCardinality(inflight) <= MaxInFlight
  /\ modals \subseteq Users
  /\ arrival_index \in Int
  /\ completion.called \in {"none", "autocomplete", "transform"}
  /\ bucket.called \in {"none", "get_key"}
  /\ check.pc \in {"constructed", "deferring", "sending", "started", "raised"}
  /\ check.cancel_pc \in {"idle", "editing", "done", "raised"}

\* ---- properties -------------------------------------------------------------
RECURSIVE Concat(_)
Concat(seqs) == IF seqs = <<>> THEN <<>> ELSE Head(seqs) \o Concat(Tail(seqs))

\* the items a page was rendered from, read off its numbered lines
ItemsOf(page) == [i \in 1..Len(page.description) |-> page.description[i][2]]

\* C1: the page set has ceil(n/p) pages (the least k with k*p >= n) and the
\* items of its pages, concatenated in page order, are the item collection.
C1_PagesPartitionItems ==
  paginator.built =>
    /\ Len(paginator.pages) * items_per_page >= Len(items)
    /\ (Len(paginator.pages) - 1) * items_per_page < Len(items)
         \/ Len(paginator.pages) = 0
    /\ Concat([n \in 1..Len(paginator.pages) |-> ItemsOf(paginator.pages[n])]) = items

C1_Witness ==
  /\ paginator.built
  /\ Len(items) = 3 /\ items_per_page = 2
  /\ Len(paginator.pages) = 2
  /\ Len(paginator.pages[2].description) = 1

\* C2: for an empty item collection the builder yields exactly one page, and
\* that page has empty content.
C2_EmptyYieldsOnePage ==
  (paginator.built /\ items = <<>>) =>
    (Len(paginator.pages) = 1 /\ paginator.pages[1].description = <<>>)

\* C3: from start onward the current page index is within the page set.
C3_IndexInRange ==
  phase \notin {"Idle", "Static"} =>
    (0 <= current_page /\ current_page < total_page_count)

\* C4: in an Active session first/previous are disabled exactly at index 0,
\* next/last exactly at the last index, and the jump label shows index+1/k.
C4_ControlStates ==
  phase = "Active" =>
    /\ current_page = 0 =>
         /\ buttons.disabled["first_page"] /\ buttons.disabled["previous"]
         /\ total_page_count > 1 =>
              ~buttons.disabled["next"] /\ ~buttons.disabled["last_page"]
    /\ current_page = total_page_count - 1 =>
         /\ buttons.disabled["next"] /\ buttons.disabled["last_page"]
         /\ total_page_count > 1 =>
              ~buttons.disabled["first_page"] /\ ~buttons.disabled["previous"]
    /\ (1 <= current_page /\ current_page <= total_page_count - 2) =>
         \A id \in NavButtonIds : ~buttons.disabled[id]
    /\ buttons.label = <<current_page + 1, total_page_count>>

C4_Witness ==
  /\ phase = "Active"
  /\ total_page_count = 3 /\ current_page = 1
  /\ last.called /\ last.target = 1

\* C5: go_to_page with an index outside [0, k) changes neither the index, the
\* controls, the page set, the displayed message nor the session, and sends no edit.
C5_OutOfRangeIsNoOp ==
  [][(/\ last'.called
      /\ total_page_count >= 1
      /\ (last'.target < 0 \/ last'.target >= total_page_count))
     => UNCHANGED <<session, paginator, shown, inflight>>]_vars

C5_Witness ==
  /\ last.called
  /\ last.op = "previous" /\ last.target = 0 - 1
  /\ total_page_count >= 1 /\ current_page = 0

\* C6 (as stated): go_to_page with the current index of an Active session, up
\* to the end of its edit, leaves index, controls and page set as they were and
\* the session Active.
C6_SameIndexKeepsActive ==
  [][(last'.idem /\ phase = "Active")
     => /\ current_page' = current_page
        /\ buttons' = buttons
        /\ pages' = pages
        /\ phase' = "Active"]_vars

\* C6 (amended): go_to_page with the current index of an Active session leaves
\* index, controls and page set as they were and sends an edit carrying the
\* page and controls already current; the session stays Active when that edit
\* is delivered and is stopped when the edit fails.
C6_SameIndexKeepsStateUnlessEditFails ==
  [][(last'.idem /\ phase = "Active")
     => /\ current_page' = current_page
        /\ buttons' = buttons
        /\ pages' = pages
        /\ last'.called =>
             /\ phase' = "Active"
             /\ inflight' = inflight (+)
                              SetToBag({[kind |-> "edit",
                                         embed |-> pages.val[current_page + 1],
                                         view |-> buttons, idem |-> TRUE]})
        /\ last'.op = "edit_done" => phase' = "Active"
        /\ last'.op = "edit_failed" => phase' = "Terminated"]_vars

C6_Witness ==
  /\ last.idem /\ last.op = "edit_done"
  /\ phase = "Active"
  /\ current_page >= 1
  /\ shown.embed = pages.val[current_page + 1]

\* C7: a submission that is no integer gets the InvalidFormat reply, an
\* integer outside [1, k] the OutOfRange reply, which differs from it, and an
\* integer v in [1, k] is handed to go_to_page as v-1 and becomes the index.
C7_JumpClassification ==
  last.op = "on_submit" =>
    /\ ~int(last.input).ok =>
         last.reply = InvalidFormat /\ ~last.called
    /\ (/\ int(last.input).ok
        /\ (int(last.input).value < 1 \/ int(last.input).value > total_page_count)) =>
         /\ last.reply = OutOfRange(total_page_count)
         /\ last.reply # InvalidFormat
         /\ ~last.called
    /\ (/\ int(last.input).ok
        /\ 1 <= int(last.input).value
        /\ int(last.input).value <= total_page_count) =>
         /\ last.called /\ last.target = int(last.input).value - 1
         /\ current_page = int(last.input).value - 1
         /\ last.reply = NoReply

C7_Witness ==
  /\ last.op = "on_submit"
  /\ total_page_count = 3
  /\ int(last.input).ok /\ int(last.input).value = total_page_count
  /\ current_page = total_page_count - 1

InvalidInput(s, k) == ~int(s).ok \/ int(s).value < 1 \/ int(s).value > k

\* C8: an invalid submission is answered with a validation message and leaves
\* the session, the page set, the displayed message and the pending edits as
\* they were; a valid one navigates, however many invalid ones came before.
C8_InvalidSubmissionKeepsState ==
  [][last'.op = "on_submit"
     => IF InvalidInput(last'.input, total_page_count)
        THEN /\ UNCHANGED <<session, paginator, shown, inflight>>
             /\ last'.reply # NoReply
        ELSE current_page' = int(last'.input).value - 1]_vars

C8_Witness ==
  /\ invalid_seen >= 2
  /\ last.op = "on_submit" /\ last.called /\ ~last.idem
  /\ phase = "Active"
  /\ current_page = last.target /\ current_page >= 1

\* C9: a modal is only ever open for the caller that started the session, and
\* a button press of any other caller changes nothing: no page change, no
\* control change, no edit, no modal, no reply.
C9_OtherCallersIgnored ==
  [][/\ modals' \subseteq {ctx.user}
     /\ (last'.op \in ButtonIds \cup {"on_submit"} /\ last'.user # ctx.user)
          => /\ UNCHANGED <<session, paginator, shown, inflight, modals>>
             /\ last'.reply = NoReply
             /\ ~last'.modal
             /\ ~last'.called]_vars

C9_Witness ==
  /\ last.op \in ButtonIds
  /\ last.user # ctx.user
  /\ phase = "Active" /\ total_page_count >= 2

\* C10: once the edit of a navigation has failed the session is Terminated
\* and its page set, caller context and message reference are released.
C10_EditFailureReleases ==
  last.op = "edit_failed" =>
    /\ phase = "Terminated"
    /\ pages = None
    /\ ctx_or_interaction = NoContext
    /\ message = "None"

\* C11: when the timeout fires in an Active session the session becomes
\* Terminated with every control disabled and one update of the displayed
\* message is attempted; when that update returns, delivered or failed, the
\* page set, the caller context and the message reference are released, the
\* failure is not propagated, and no second update is attempted.
C11_TimeoutTerminates ==
  [][/\ (timeout_task.pc = "idle" /\ timeout_task'.pc # "idle") =>
          /\ phase = "Active" /\ phase' = "Terminated"
          /\ \A id \in ButtonIds : buttons'.disabled[id]
          /\ timeout_task'.pc = "awaiting"
          /\ \A id \in ButtonIds : timeout_task'.view.disabled[id]
          /\ inflight' = inflight
     /\ (timeout_task.pc = "awaiting" /\ timeout_task' # timeout_task) =>
          /\ timeout_task'.pc = "done"
          /\ phase' = "Terminated"
          /\ shown' \in {shown, [shown EXCEPT !.view = timeout_task.view]}
     /\ timeout_task'.pc = "done" =>
          /\ pages' = None
          /\ ctx_or_interaction' = NoContext
          /\ message' = "None"
     /\ timeout_task.pc = "done" => timeout_task' = timeout_task
    ]_vars

C11_Witness ==
  /\ last.op = "timeout_edit_failed"
  /\ phase = "Terminated"
  /\ timeout_task.pc = "done"
  /\ pages = None /\ ctx_or_interaction = NoContext /\ message = "None"
  /\ \A id \in ButtonIds : buttons.disabled[id]
  /\ shown.sent /\ ~shown.view.disabled["current_page"]

\* C12: ListPagination.start has exactly one page exactly when
\* 1 <= n <= items_per_page; it then sends that page once as a message without
\* controls and leaves no session behind; a message with controls is sent, and
\* a session started, only when there are at least two pages.
C12_SinglePageBypassesSession ==
  paginator.built =>
    /\ Len(paginator.pages) = 1 <=> (1 <= Len(items) /\ Len(items) <= items_per_page)
    /\ Len(paginator.pages) = 1 =>
         /\ phase = "Static"
         /\ pages = Some(<<>>) /\ ctx_or_interaction = NoContext /\ message = "None"
         /\ buttons = NoView /\ total_page_count = 0
         /\ BagCardinality(inflight) + (IF shown.sent THEN 1 ELSE 0) <= 1
         /\ \A t \in BagToSet(inflight) :
              t.kind = "static" /\ t.view = NoView /\ t.embed = paginator.pages[1]
         /\ shown.sent => (shown.view = NoView /\ shown.embed = paginator.pages[1])
    /\ (\/ phase \in {"Starting", "Active"}
        \/ shown.view.added
        \/ \E t \in BagToSet(inflight) : t.view.added) => Len(paginator.pages) >= 2

C12_Witness ==
  /\ paginator.built
  /\ Len(items) = 2 /\ items_per_page = 2
  /\ Len(paginator.pages) = 1
  /\ phase = "Static"
  /\ shown.sent /\ ~shown.view.added
  /\ inflight = EmptyBag

\* the absolute indices a page shows, read off its numbered lines
IndicesOf(page) == [i \in 1..Len(page.description) |-> page.description[i][1]]

\* C13: with the list renderer and the default formatter the item at 0-based
\* position j of 0-based page i is numbered i * items_per_page + j + 1, so the
\* numbers over all pages are exactly 1..n in order.
C13_NumberingContinues ==
  paginator.built =>
    /\ \A n \in 1..Len(paginator.pages) :
         \A j \in 1..Len(paginator.pages[n].description) :
           /\ paginator.pages[n].description[j][1] = (n - 1) * items_per_page + (j - 1) + 1
           /\ paginator.pages[n].description[j][2] =
                items[(n - 1) * items_per_page + (j - 1) + 1]
    /\ Concat([n \in 1..Len(paginator.pages) |-> IndicesOf(paginator.pages[n])])
         = [i \in 1..Len(items) |-> i]

C13_Witness ==
  /\ paginator.built
  /\ Len(items) = 3 /\ items_per_page = 2
  /\ IndicesOf(paginator.pages[1]) = <<1, 2>>
  /\ IndicesOf(paginator.pages[2]) = <<3>>

\* C14 as stated: for every partial string that is a substring of the enabled
\* token, autocomplete returns only the enabled token.
C14_EnabledPartialYieldsEnabledOnly ==
  (/\ completion.called = "autocomplete"
   /\ \E i \in 0..2, j \in 0..2 : completion.current = SubSeq(Enabled, i + 1, j)) =>
    completion.choices = <<Choice(Enabled, Enabled)>>

\* C14, amended: a partial string found in the enabled token only (its first
\* character, or the whole token) yields the enabled token alone; a partial
\* string found in both tokens (the empty string, or the shared second
\* character) yields both tokens, enabled first.
C14_SharedPartialYieldsBoth ==
  completion.called = "autocomplete" =>
    /\ completion.current \in {<<"U+6709">>, <<"U+6709", "U+52B9">>} =>
         completion.choices = <<Choice(Enabled, Enabled)>>
    /\ completion.current \in {<<>>, <<"U+52B9">>} =>
         completion.choices = <<Choice(Enabled, Enabled), Choice(Disabled, Disabled)>>

C14_Witness ==
  /\ completion.called = "autocomplete"
  /\ completion.current = <<"U+52B9">>
  /\ Len(completion.choices) = 2

\* C15: under the member strategy, of either bucket type, two requests get the
\* same key exactly when they have the same (guild, user) pair, and a request
\* without a guild has None in the guild place of its key.
C15_MemberKeyIsPair ==
  (bucket.called = "get_key" /\ bucket.type = "member") =>
    /\ bucket.keys[1] = bucket.keys[2]
         <=> (/\ bucket.first.guild = bucket.second.guild
              /\ bucket.first.user = bucket.second.user)
    /\ bucket.first.guild = "None" => bucket.keys[1][1] = "None"

C15_Witness ==
  /\ bucket.called = "get_key" /\ bucket.type = "member"
  /\ bucket.scope = "interaction"
  /\ bucket.first.guild = "None" /\ bucket.second.guild = "None"
  /\ bucket.first.user = bucket.second.user
  /\ bucket.first.channel # bucket.second.channel
  /\ bucket.keys[1] = bucket.keys[2]

\* C16: the key of each strategy: default none; user the user id; guild the
\* guild id, or the user id without a guild; channel the channel id; member the
\* (guild id, user id) pair; category the category id, or the channel id of a
\* channel without category; role the top role id, or the channel id in a
\* private channel.
C16_KeyTable ==
  bucket.called = "get_key" =>
    LET r == bucket.first
        k == bucket.keys[1]
    IN /\ bucket.type = "default" => k = <<>>
       /\ bucket.type = "user" => k = <<r.user>>
       /\ bucket.type = "guild" => k = (IF r.guild = "None" THEN <<r.user>> ELSE <<r.guild>>)
       /\ bucket.type = "channel" => k = <<r.channel>>
       /\ bucket.type = "member" => k = <<r.guild, r.user>>
       /\ bucket.type = "category" =>
            k = (IF r.category = "None" THEN <<r.channel>> ELSE <<r.category>>)
       /\ bucket.type = "role" => k = (IF r.private THEN <<r.channel>> ELSE <<r.top_role>>)

C16_Witness ==
  /\ bucket.called = "get_key" /\ bucket.type = "guild"
  /\ bucket.first.guild = "None"
  /\ bucket.keys[1] = <<bucket.first.user>>

\* C17: once start has run (and nothing failed to be delivered) it has
\* returned without error, the message carries the two controls confirm and
\* cancel, and the confirm control dispatches to the confirm_callback that
\* was handed to start.
C17_StartAttachesControls ==
  (check.pc \in {"started", "raised"} /\ check.error # "HTTPException") =>
    /\ check.pc = "started"
    /\ check.displayed.components = {"confirm", "cancel"}
    /\ check.confirm_button = check.confirm_callback

\* C18: once the cancel handler has run (and its edit was not refused) the
\* message shows the cancellation notice without controls and its deletion
\* is scheduled after the delay 5.
C18_CancelCleansUp ==
  (check.cancel_pc \in {"done", "raised"} /\ check.cancel_error # "HTTPException") =>
    /\ check.displayed.content = CancelNotice
    /\ check.displayed.components = {}
    /\ check.deletion = [scheduled |-> TRUE, delay |-> 5]

\* C19: Terminated is absorbing: no step taken in a Terminated session changes
\* the current index, enables a disabled control, leaves Terminated, or calls
\* go_to_page into the released page set.
C19_TerminatedIsAbsorbing ==
  [][phase = "Terminated" =>
       /\ phase' = "Terminated"
       /\ current_page' = current_page
       /\ \A id \in ButtonIds : buttons.disabled[id] => buttons'.disabled[id]
       /\ ~(pages = None /\ last'.called /\ last' # last)
    ]_vars

C21_DisplayedEqualsSession ==
  (/\ last.op \in {"start_sent", "edit_done"}
   /\ pages.some /\ index_ok(pages.val, current_page)) =>
    /\ shown.sent
    /\ shown.embed = py_index(pages.val, current_page)
    /\ shown.view.disabled = buttons.disabled
    /\ shown.view.label = buttons.label

====
